---- MODULE Spec2Model ----
(***************************************************************************)
(* Model of the WhatsApp gold-price bot of src/main.py: the in-memory TTL  *)
(* cache, the text extractor, the unit converter, the four source          *)
(* fetchers, the aggregator get_gold_prices_idr_per_gram, the presenter    *)
(* format_price_message and the POST /webhook handler receive_webhook.     *)
(*                                                                         *)
(* Python values are represented as follows.                               *)
(*   Optional[x]   <<>> for None, <<x>> for a value                        *)
(*   str           a sequence of one-character strings, where the code     *)
(*                 computes on the characters; a TLA+ string otherwise     *)
(*   dict          a sequence of <<key, value>> pairs in insertion order   *)
(*   float         an integer (the prices and rates used are whole)        *)
(* Each webhook request is a coroutine; control leaves it only at an       *)
(* await of network I/O, so an action is the code between two awaits.      *)
(***************************************************************************)
EXTENDS Integers, Sequences, FiniteSets, TLC

VARIABLES
    cache,                  \* _cache: key -> [ts, val]
    now,                    \* time.time(), in seconds
    GOLDAPI_KEY,            \* TRUE iff the environment sets a non-empty key
    EXCHANGERATE_API_KEY,   \* TRUE iff the environment sets a non-empty key
    pc,                     \* per request: the await the coroutine is suspended at
    loc,                    \* per request: the local variables that are live
    calls,                  \* per request: the fetchers invoked so far, in order
    net,                    \* per request: what the network answered each fetch
    resp                    \* per request: the HTTP response of the handler

vars == <<cache, now, GOLDAPI_KEY, EXCHANGERATE_API_KEY, pc, loc, calls, net, resp>>

----------------------------------------------------------------------------
(* Bounds and program constants *)

MaxTime == 301

MaxDrift == 1

MaxPrice == 4

CACHE_TTL_SECONDS == 300

Reqs == {"r1", "r2"}

None == <<>>

Some(x) == <<x>>

CACHE_KEY == "gold_prices"

ANTAM_NAME == "Antam (LogamMulia)"

HE_NAME == "Harga-Emas.org"

SPOT_NAME == "Spot (XAU/USD->IDR)"

ANTAM_NOTE == "Antam source unavailable"

HE_NOTE == "Harga-Emas.org source unavailable"

SPOT_NOTE == "Spot source unavailable (missing/failed API keys)"

----------------------------------------------------------------------------
(* Cache *)

EmptyCache == [k \in {} |-> None]

\* cache_get with the bound of the TTL window excluded ("age >= TTL" expires)
cache_get_strict(c, key, t) ==
    IF key \notin DOMAIN c THEN None
    ELSE IF t - c[key].ts >= CACHE_TTL_SECONDS THEN None
    ELSE Some(c[key].val)

\* cache_get's return value: None for a missing or expired entry.
cache_get(c, key, t) ==
    IF key \notin DOMAIN c THEN None
    ELSE IF t - c[key].ts > CACHE_TTL_SECONDS THEN None
    ELSE Some(c[key].val)

\* cache_get that leaves an expired entry in place
cache_get_keep(c, key, t) == c

\* cache_get's effect on _cache: an expired entry is popped.
cache_get_effect(c, key, t) ==
    IF key \in DOMAIN c /\ t - c[key].ts > CACHE_TTL_SECONDS
    THEN [k \in DOMAIN c \ {key} |-> c[k]]
    ELSE c

\* cache_set that updates an existing entry's prices and keeps its notes
cache_set_merge(c, key, t, val) ==
    [k \in DOMAIN c \cup {key} |->
        IF k # key THEN c[k]
        ELSE IF key \in DOMAIN c
        THEN [ts |-> t, val |-> [prices |-> val.prices, notes |-> c[key].val.notes]]
        ELSE [ts |-> t, val |-> val]]

cache_set(c, key, t, val) ==
    [k \in DOMAIN c \cup {key} |-> IF k = key THEN [ts |-> t, val |-> val] ELSE c[k]]

----------------------------------------------------------------------------
(* Text extractor *)

DigitChars == <<"0", "1", "2", "3", "4", "5", "6", "7", "8", "9">>

IsDigit(ch) == \E i \in 1..10 : DigitChars[i] = ch

DigitVal(ch) == (CHOOSE i \in 1..10 : DigitChars[i] = ch) - 1

\* re.sub(r"[^\d]", "", text)
RECURSIVE KeepDigits(_)
KeepDigits(text) ==
    IF text = <<>> THEN <<>>
    ELSE IF IsDigit(Head(text)) THEN <<Head(text)>> \o KeepDigits(Tail(text))
    ELSE KeepDigits(Tail(text))

\* int(digits) for a non-empty string of digits
RECURSIVE ParseInt(_)
ParseInt(digits) ==
    IF digits = <<>> THEN 0
    ELSE 10 * ParseInt(SubSeq(digits, 1, Len(digits) - 1)) + DigitVal(digits[Len(digits)])

clean_int_from_text(text) ==
    IF text = <<>> THEN None
    ELSE IF KeepDigits(text) = <<>> THEN None
    ELSE Some(ParseInt(KeepDigits(text)))

----------------------------------------------------------------------------
(* Unit converter *)

\* Python's round(): the nearest integer to n/d (d > 0), ties to even.
RoundHalfEven(n, d) ==
    LET q == n \div d
        r == n % d
    IN  IF 2 * r < d THEN q
        ELSE IF 2 * r > d THEN q + 1
        ELSE IF q % 2 = 0 THEN q ELSE q + 1

\* 31.1034768 = 19439673 / 625000
xau_usd_oz_to_idr_per_gram(xau_usd_per_oz, usd_idr) ==
    RoundHalfEven(xau_usd_per_oz * usd_idr * 625000, 19439673)

----------------------------------------------------------------------------
(* Source fetchers.  A fetcher is a function of what the network gives it:  *)
(* kind "error" is a raised network error or timeout, kind "status" a       *)
(* non-success status (raise_for_status), kind "ok" a parsed document.      *)

PriceQuote(name, idr_per_gram, detail) ==
    [name |-> name, idr_per_gram |-> idr_per_gram, detail |-> detail]

\* fetch_antam_logammulia with "if parsed is None" for "if not parsed"
fetch_antam_zero_ok(page) ==
    IF page.kind # "ok" THEN None
    ELSE IF page.token = None THEN None
    ELSE LET parsed == clean_int_from_text(page.token[1])
         IN  IF parsed = None THEN None
             ELSE Some([name |-> ANTAM_NAME, idr_per_gram |-> parsed[1], detail |-> "1gr"])

\* page.token: m2.group(0), the "Rp ..." token the two regexes leave, or None
fetch_antam_logammulia(page) ==
    IF page.kind # "ok" THEN None
    ELSE IF page.token = None THEN None
    ELSE LET parsed == clean_int_from_text(page.token[1])
         IN  IF parsed = None \/ parsed[1] = 0 THEN None
             ELSE Some(PriceQuote(ANTAM_NAME, parsed[1], "1gr"))

fetch_harga_emas_org(page) ==
    IF page.kind # "ok" THEN None
    ELSE IF page.token = None THEN None
    ELSE LET parsed == clean_int_from_text(page.token[1])
         IN  IF parsed = None \/ parsed[1] = 0 THEN None
             ELSE Some(PriceQuote(HE_NAME, parsed[1], "24K"))

\* reply.price: data.get("price")
fetch_spot_xau_usd(key, reply) ==
    IF ~key THEN None
    ELSE IF reply.kind # "ok" THEN None
    ELSE IF reply.price = None THEN None
    ELSE Some(reply.price[1])

\* reply.idr: (data.get("conversion_rates") or {}).get("IDR")
fetch_usd_idr_rate(key, reply) ==
    IF ~key THEN None
    ELSE IF reply.kind # "ok" THEN None
    ELSE IF reply.idr = None \/ reply.idr[1] = 0 THEN None
    ELSE Some(reply.idr[1])

----------------------------------------------------------------------------
(* Aggregation *)

\* d[k] = v on an insertion-ordered dict
dict_set(d, k, v) ==
    IF \E i \in 1..Len(d) : d[i][1] = k
    THEN [i \in 1..Len(d) |-> IF d[i][1] = k THEN <<k, v>> ELSE d[i]]
    ELSE Append(d, <<k, v>>)

\* truthiness of an Optional[float]
Truthy(x) == x # None /\ x[1] # 0

\* the prices dict get_gold_prices_idr_per_gram builds from the four results
prices_of(antam, he, spot_usd, fx) ==
    LET p1 == IF antam # None
              THEN dict_set(<<>>, antam[1].name, antam[1].idr_per_gram)
              ELSE <<>>
        p2 == IF he # None
              THEN dict_set(p1, he[1].name, he[1].idr_per_gram)
              ELSE p1
    IN  IF Truthy(spot_usd) /\ Truthy(fx)
        THEN dict_set(p2, SPOT_NAME, xau_usd_oz_to_idr_per_gram(spot_usd[1], fx[1]))
        ELSE p2

\* notes_of with one note for each of the two failed calls of the spot pair
notes_per_call(antam, he, spot_usd, fx) ==
    (IF antam # None THEN <<>> ELSE <<ANTAM_NOTE>>)
    \o (IF he # None THEN <<>> ELSE <<HE_NOTE>>)
    \o (IF Truthy(spot_usd) THEN <<>> ELSE <<SPOT_NOTE>>)
    \o (IF Truthy(fx) THEN <<>> ELSE <<SPOT_NOTE>>)

\* the notes list get_gold_prices_idr_per_gram builds from the four results
notes_of(antam, he, spot_usd, fx) ==
    (IF antam # None THEN <<>> ELSE <<ANTAM_NOTE>>)
    \o (IF he # None THEN <<>> ELSE <<HE_NOTE>>)
    \o (IF Truthy(spot_usd) /\ Truthy(fx) THEN <<>> ELSE <<SPOT_NOTE>>)

----------------------------------------------------------------------------
(* Presenter *)

dict_values(d) == [i \in 1..Len(d) |-> d[i][2]]

\* int(x / 2): Python's int() truncates toward zero
TruncHalf(s) == IF s >= 0 THEN s \div 2 ELSE -((-s) \div 2)

\* median_int with floor division ("//") for int(... / 2)
median_floor(vals) ==
    LET data == SortSeq(vals, LAMBDA a, b : a < b)
        n == Len(data)
    IN  IF n % 2 = 1 THEN data[(n \div 2) + 1]
        ELSE (data[n \div 2] + data[(n \div 2) + 1]) \div 2

\* int(statistics.median(vals)) for a non-empty list
median_int(vals) ==
    LET data == SortSeq(vals, LAMBDA a, b : a < b)
        n == Len(data)
    IN  IF n % 2 = 1 THEN data[(n \div 2) + 1]
        ELSE TruncHalf(data[n \div 2] + data[(n \div 2) + 1])

SeqMax(vals) == CHOOSE x \in {vals[i] : i \in 1..Len(vals)} :
                    \A j \in 1..Len(vals) : vals[j] <= x

SeqMin(vals) == CHOOSE x \in {vals[i] : i \in 1..Len(vals)} :
                    \A j \in 1..Len(vals) : x <= vals[j]

spread_of(vals) == IF Len(vals) >= 2 THEN SeqMax(vals) - SeqMin(vals) ELSE 0

RECURSIVE Digits(_)
Digits(n) ==
    IF n < 10 THEN <<DigitChars[n + 1]>>
    ELSE Digits(n \div 10) \o <<DigitChars[(n % 10) + 1]>>

\* the thousands grouping of f"{v:,}" after .replace(",", ".")
RECURSIVE Group(_)
Group(ds) ==
    IF Len(ds) <= 3 THEN ds
    ELSE Group(SubSeq(ds, 1, Len(ds) - 3)) \o <<".">> \o SubSeq(ds, Len(ds) - 2, Len(ds))

\* f"Rp {v:,}".replace(",", ".")
FormatRp(v) ==
    <<"R", "p", " ">> \o (IF v < 0 THEN <<"-">> \o Group(Digits(-v)) ELSE Group(Digits(v)))

Line(tag, label, amount, notes) ==
    [tag |-> tag, label |-> label, amount |-> amount, notes |-> notes]

PriceLines(prices) ==
    [i \in 1..Len(prices) |-> Line("price", prices[i][1], FormatRp(prices[i][2]), <<>>)]

\* the message, as the list of lines joined by "\n"; the timestamp line
\* carries no text here (the wall clock's rendering is not modelled)
format_price_message(prices, notes) ==
    IF prices = <<>>
    THEN <<Line("fail", "", <<>>, <<>>), Line("retry", "", <<>>, <<>>),
           Line("time", "", <<>>, <<>>)>>
    ELSE LET vals == dict_values(prices)
         IN  <<Line("header", "", <<>>, <<>>), Line("divider", "", <<>>, <<>>)>>
             \o PriceLines(prices)
             \o <<Line("divider", "", <<>>, <<>>),
                  Line("median", "", FormatRp(median_int(vals)), <<>>)>>
             \o (IF Len(vals) >= 2
                 THEN <<Line("spread", "", FormatRp(spread_of(vals)), <<>>)>>
                 ELSE <<>>)
             \o (IF notes # <<>>
                 THEN <<Line("blank", "", <<>>, <<>>),
                        Line("notes", "", <<>>, SubSeq(notes, 1, IF Len(notes) < 2 THEN Len(notes) ELSE 2))>>
                 ELSE <<>>)
             \o <<Line("time", "", <<>>, <<>>)>>

HelpMessage ==
    <<Line("help", "", <<>>, <<>>), Line("help_emas", "", <<>>, <<>>),
      Line("help_help", "", <<>>, <<>>), Line("time", "", <<>>, <<>>)>>

FallbackMessage == <<Line("fallback", "", <<>>, <<>>)>>

----------------------------------------------------------------------------
(* Webhook handler: command normalisation and dispatch *)

UpperChars == <<"A", "B", "C", "D", "E", "F", "G", "H", "I", "J", "K", "L", "M",
                "N", "O", "P", "Q", "R", "S", "T", "U", "V", "W", "X", "Y", "Z">>

LowerChars == <<"a", "b", "c", "d", "e", "f", "g", "h", "i", "j", "k", "l", "m",
                "n", "o", "p", "q", "r", "s", "t", "u", "v", "w", "x", "y", "z">>

LowerChar(ch) ==
    IF \E i \in 1..26 : UpperChars[i] = ch
    THEN LowerChars[CHOOSE i \in 1..26 : UpperChars[i] = ch]
    ELSE ch

\* str.lower()
lower(text) == [i \in 1..Len(text) |-> LowerChar(text[i])]

RECURSIVE lstrip(_)
lstrip(text) ==
    IF text # <<>> /\ Head(text) = " " THEN lstrip(Tail(text)) ELSE text

RECURSIVE rstrip(_)
rstrip(text) ==
    IF text # <<>> /\ text[Len(text)] = " "
    THEN rstrip(SubSeq(text, 1, Len(text) - 1))
    ELSE text

\* str.strip()
strip(text) == rstrip(lstrip(text))

PriceCommands ==
    { <<"e", "m", "a", "s">>, <<"g", "o", "l", "d">>,
      <<"h", "a", "r", "g", "a", " ", "e", "m", "a", "s">>,
      <<"p", "r", "i", "c", "e">>, <<"a", "n", "t", "a", "m">> }

HelpCommands ==
    { <<"h", "e", "l", "p">>, <<"m", "e", "n", "u">>, <<"?">>,
      <<"h", "a", "i">>, <<"h", "a", "l", "o">> }

\* text_body of the first message: its text body when its type is "text"
text_body_of(msg) == IF msg.type = "text" THEN msg.body ELSE <<>>

Response(status, ok, error) == [status |-> status, ok |-> ok, error |-> error]

\* JSONResponse({"ok": True})
AckOk == Response(200, TRUE, FALSE)

\* JSONResponse({"ok": True, "error": str(e)})
AckError == Response(200, TRUE, TRUE)

\* the framework's answer to an exception that leaves the handler
ServerError == Response(500, FALSE, TRUE)

----------------------------------------------------------------------------
(* Inputs *)

Page(kind, token) == [kind |-> kind, token |-> token]

SpotReply(kind, price) == [kind |-> kind, price |-> price]

FxReply(kind, idr) == [kind |-> kind, idr |-> idr]

\* what the network can give each fetcher
AntamPages ==
    { Page("error", None), Page("status", None), Page("ok", None),
      Page("ok", Some(<<"R", "p", " ", ".">>)),
      Page("ok", Some(<<"R", "p", " ", "0">>)),
      Page("ok", Some(<<"R", "p", " ", "1", ".", "0">>)) }

HePages ==
    { Page("error", None), Page("status", None), Page("ok", None),
      Page("ok", Some(<<"R", "p", "0", ",", "0">>)),
      Page("ok", Some(<<"R", "p", " ", "1", "0">>)),
      Page("ok", Some(<<"R", "p", " ", "3", "0">>)) }

SpotReplies ==
    { SpotReply("error", None), SpotReply("status", None), SpotReply("ok", None),
      SpotReply("ok", Some(0)), SpotReply("ok", Some(1)), SpotReply("ok", Some(311)),
      SpotReply("ok", Some(-311)) }

FxReplies ==
    { FxReply("error", None), FxReply("status", None), FxReply("ok", None),
      FxReply("ok", Some(0)), FxReply("ok", Some(1)), FxReply("ok", Some(3)) }

\* the smaller choice used where two requests overlap
FewAntamPages == { Page("error", None), Page("ok", Some(<<"R", "p", " ", "1", ".", "0">>)) }

FewHePages == { Page("status", None), Page("ok", Some(<<"R", "p", " ", "3", "0">>)) }

FewSpotReplies == { SpotReply("ok", None), SpotReply("ok", Some(311)) }

FewFxReplies == { FxReply("ok", Some(1)) }

SendOutcomes == {"sent", "status", "error"}

Msg(from, type, body) == [from |-> from, type |-> type, body |-> body]

Body(kind, msg) == [kind |-> kind, msg |-> msg]

NoMsg == Msg(None, "", <<>>)

\* kind: what the request body decodes to
Bodies ==
    { Body("invalid_json", NoMsg), Body("not_an_object", NoMsg),
      Body("no_entry", NoMsg), Body("no_changes", NoMsg), Body("no_messages", NoMsg),
      Body("message", Msg(Some("628"), "text", <<" ", "E", "M", "A", "S", " ">>)),
      Body("message", Msg(Some("628"), "text", <<"g", "o", "l", "d">>)),
      Body("message", Msg(Some("628"), "text", <<"H", "a", "l", "o">>)),
      Body("message", Msg(Some("628"), "image", <<>>)),
      Body("message", Msg(None, "text", <<"x", "y", "z">>)) }

----------------------------------------------------------------------------
(* State *)

NoLoc ==
    [from_number |-> None, antam |-> None, he |-> None, spot_usd |-> None,
     fx |-> None, ret |-> None, reply |-> <<>>]

\* no fetch of the request has been answered
NoNet == [antam |-> None, he |-> None, spot |-> None, fx |-> None]

Fetching == {"antam", "he", "spot", "fx"}

Init ==
    /\ cache = EmptyCache
    /\ now = 0
    /\ GOLDAPI_KEY \in BOOLEAN
    /\ EXCHANGERATE_API_KEY \in BOOLEAN
    /\ pc = [r \in Reqs |-> "idle"]
    /\ loc = [r \in Reqs |-> NoLoc]
    /\ calls = [r \in Reqs |-> <<>>]
    /\ net = [r \in Reqs |-> NoNet]
    /\ resp = [r \in Reqs |-> None]

----------------------------------------------------------------------------
(* Steps of a request *)

\* the coroutine suspends at the await named p
Suspend(r, p, l, cs, n) ==
    /\ pc' = [pc EXCEPT ![r] = p]
    /\ loc' = [loc EXCEPT ![r] = l]
    /\ calls' = [calls EXCEPT ![r] = cs]
    /\ net' = [net EXCEPT ![r] = n]
    /\ resp' = [resp EXCEPT ![r] = None]

\* the handler returns (or raises) and its locals die
Return(r, response) ==
    /\ pc' = [pc EXCEPT ![r] = "done"]
    /\ loc' = [loc EXCEPT ![r] = NoLoc]
    /\ calls' = [calls EXCEPT ![r] = <<>>]
    /\ net' = [net EXCEPT ![r] = NoNet]
    /\ resp' = [resp EXCEPT ![r] = Some(response)]

\* "if from_number: await wa_send_text(from_number, reply)", then the return
SendReply(r, from_number, ret, reply, cs, n) ==
    IF from_number # None
    THEN Suspend(r, "send",
                 [NoLoc EXCEPT !.from_number = from_number, !.ret = ret, !.reply = reply],
                 cs, n)
    ELSE Return(r, AckOk)

\* the tail of get_gold_prices_idr_per_gram once the four results are in:
\* compose, cache_set, return; then format_price_message in the handler
Compose(r, l, cs, n) ==
    LET prices == prices_of(l.antam, l.he, l.spot_usd, l.fx)
        notes == notes_of(l.antam, l.he, l.spot_usd, l.fx)
        val == [prices |-> prices, notes |-> notes]
    IN  /\ cache' = cache_set(cache, CACHE_KEY, now, val)
        /\ SendReply(r, l.from_number, Some(val), format_price_message(prices, notes), cs, n)

\* fetch_usd_idr_rate is called; without a key it returns at once
CallFx(r, l, cs, n) ==
    IF EXCHANGERATE_API_KEY
    THEN /\ Suspend(r, "fx", l, Append(cs, "fx"), n)
         /\ cache' = cache
    ELSE Compose(r, [l EXCEPT !.fx = fetch_usd_idr_rate(FALSE, FxReply("error", None))],
                 Append(cs, "fx"), n)

\* fetch_spot_xau_usd is called; without a key it returns at once
CallSpot(r, l, cs, n) ==
    IF GOLDAPI_KEY
    THEN /\ Suspend(r, "spot", l, Append(cs, "spot"), n)
         /\ cache' = cache
    ELSE CallFx(r, [l EXCEPT !.spot_usd = fetch_spot_xau_usd(FALSE, SpotReply("error", None))],
                Append(cs, "spot"), n)

\* get_gold_prices_idr_per_gram up to its first await
CallAggregation(r, from_number) ==
    LET cached == cache_get(cache, CACHE_KEY, now)
    IN  IF cached # None
        THEN /\ cache' = cache_get_effect(cache, CACHE_KEY, now)
             /\ SendReply(r, from_number, cached,
                          format_price_message(cached[1].prices, cached[1].notes),
                          <<>>, NoNet)
        ELSE /\ cache' = cache_get_effect(cache, CACHE_KEY, now)
             /\ Suspend(r, "antam", [NoLoc EXCEPT !.from_number = from_number],
                        <<"antam">>, NoNet)

\* POST /webhook up to its first await after the body is read
receive_webhook(r) ==
    /\ pc[r] \in {"idle", "done"}
    /\ \E body \in Bodies :
        IF body.kind = "invalid_json"
        THEN Return(r, ServerError) /\ cache' = cache
        ELSE IF body.kind = "not_an_object"
        THEN Return(r, AckError) /\ cache' = cache
        ELSE IF body.kind \in {"no_entry", "no_changes", "no_messages"}
        THEN Return(r, AckOk) /\ cache' = cache
        ELSE LET cmd == lower(strip(text_body_of(body.msg)))
             IN  IF cmd \in PriceCommands
                 THEN CallAggregation(r, body.msg.from)
                 ELSE IF cmd \in HelpCommands
                 THEN /\ SendReply(r, body.msg.from, None, HelpMessage, <<>>, NoNet)
                      /\ cache' = cache
                 ELSE /\ SendReply(r, body.msg.from, None, FallbackMessage, <<>>, NoNet)
                      /\ cache' = cache
    /\ UNCHANGED <<now, GOLDAPI_KEY, EXCHANGERATE_API_KEY>>

\* "antam = await fetch_antam_logammulia(client)" resumes; the next fetch starts
AntamDone(r, pages) ==
    /\ pc[r] = "antam"
    /\ \E page \in pages :
        /\ Suspend(r, "he", [loc[r] EXCEPT !.antam = fetch_antam_logammulia(page)],
                   Append(calls[r], "he"), [net[r] EXCEPT !.antam = Some(page)])
        /\ cache' = cache
    /\ UNCHANGED <<now, GOLDAPI_KEY, EXCHANGERATE_API_KEY>>

\* "he = await fetch_harga_emas_org(client)" resumes
HeDone(r, pages) ==
    /\ pc[r] = "he"
    /\ \E page \in pages :
        CallSpot(r, [loc[r] EXCEPT !.he = fetch_harga_emas_org(page)], calls[r],
                 [net[r] EXCEPT !.he = Some(page)])
    /\ UNCHANGED <<now, GOLDAPI_KEY, EXCHANGERATE_API_KEY>>

\* "spot_usd = await fetch_spot_xau_usd(client)" resumes
SpotDone(r, replies) ==
    /\ pc[r] = "spot"
    /\ \E reply \in replies :
        CallFx(r, [loc[r] EXCEPT !.spot_usd = fetch_spot_xau_usd(GOLDAPI_KEY, reply)],
               calls[r], [net[r] EXCEPT !.spot = Some(reply)])
    /\ UNCHANGED <<now, GOLDAPI_KEY, EXCHANGERATE_API_KEY>>

\* "fx = await fetch_usd_idr_rate(client)" resumes
FxDone(r, replies) ==
    /\ pc[r] = "fx"
    /\ \E reply \in replies :
        Compose(r, [loc[r] EXCEPT !.fx = fetch_usd_idr_rate(EXCHANGERATE_API_KEY, reply)],
                calls[r], [net[r] EXCEPT !.fx = Some(reply)])
    /\ UNCHANGED <<now, GOLDAPI_KEY, EXCHANGERATE_API_KEY>>

\* "await wa_send_text(...)" resumes: sent, or HTTPException on a status
\* >= 300, or a network error; "except Exception" absorbs both
SendDone(r) ==
    /\ pc[r] = "send"
    /\ \E outcome \in SendOutcomes :
        Return(r, IF outcome = "sent" THEN AckOk ELSE AckError)
    /\ UNCHANGED <<cache, now, GOLDAPI_KEY, EXCHANGERATE_API_KEY>>

\* the wall clock advances; the instants sampled are those within MaxDrift
\* seconds after a multiple of the TTL, up to MaxTime
Tick ==
    /\ \E d \in {1, CACHE_TTL_SECONDS} :
        /\ now + d <= MaxTime
        /\ (now + d) % CACHE_TTL_SECONDS <= MaxDrift
        /\ now' = now + d
    /\ UNCHANGED <<cache, GOLDAPI_KEY, EXCHANGERATE_API_KEY, pc, loc, calls, net, resp>>

\* two overlapping requests
Next ==
    \/ \E r \in Reqs : receive_webhook(r)
    \/ \E r \in Reqs : AntamDone(r, FewAntamPages)
    \/ \E r \in Reqs : HeDone(r, FewHePages)
    \/ \E r \in Reqs : SpotDone(r, FewSpotReplies)
    \/ \E r \in Reqs : FxDone(r, FewFxReplies)
    \/ \E r \in Reqs : SendDone(r)
    \/ Tick

Spec == Init /\ [][Next]_vars

\* one request at a time, over every kind of answer from the sources
NextValues ==
    \/ receive_webhook("r1")
    \/ AntamDone("r1", AntamPages)
    \/ HeDone("r1", HePages)
    \/ SpotDone("r1", SpotReplies)
    \/ FxDone("r1", FxReplies)
    \/ SendDone("r1")
    \/ Tick

SpecValues == Init /\ [][NextValues]_vars

\* the presenter on every cached result of up to three prices: the cache
\* holds what an aggregation stored from the quotes a, h and the spot s
Quotes(name, detail) ==
    {None} \cup { Some(PriceQuote(name, v, detail)) : v \in 1..MaxPrice }

SpotPrices == {None} \cup { Some(31 * k) : k \in (-MaxPrice)..MaxPrice }

InitPresenter ==
    /\ \E a \in Quotes(ANTAM_NAME, "1gr"), h \in Quotes(HE_NAME, "24K"), s \in SpotPrices :
        cache = cache_set(EmptyCache, CACHE_KEY, 0,
                          [prices |-> prices_of(a, h, s, Some(1)),
                           notes |-> notes_of(a, h, s, Some(1))])
    /\ now = 0
    /\ GOLDAPI_KEY = TRUE
    /\ EXCHANGERATE_API_KEY = TRUE
    /\ pc = [r \in Reqs |-> "idle"]
    /\ loc = [r \in Reqs |-> NoLoc]
    /\ calls = [r \in Reqs |-> <<>>]
    /\ net = [r \in Reqs |-> NoNet]
    /\ resp = [r \in Reqs |-> None]

NextPresenter ==
    \/ receive_webhook("r1")
    \/ SendDone("r1")

SpecPresenter == InitPresenter /\ [][NextPresenter]_vars

----------------------------------------------------------------------------
(* Vocabulary of the properties *)

\* the cache holds an entry whose age is within the TTL
Live == CACHE_KEY \in DOMAIN cache /\ now - cache[CACHE_KEY].ts <= CACHE_TTL_SECONDS

\* this step is request r entering get_gold_prices_idr_per_gram
AggCalled(r) == pc[r] \in {"idle", "done"} /\ (pc'[r] = "antam" \/ loc'[r].ret # None)

\* this step is the aggregation of request r returning from a cache miss
Completes(r) == pc[r] \in Fetching /\ pc'[r] \notin Fetching

AllFetchers == <<"antam", "he", "spot", "fx">>

HasKey(prices, name) == \E i \in 1..Len(prices) : prices[i][1] = name

HasEntry(prices, name, v) == \E i \in 1..Len(prices) : prices[i] = <<name, v>>

ValueAt(prices, name) == prices[CHOOSE i \in 1..Len(prices) : prices[i][1] = name][2]

HasNote(notes, note) == \E i \in 1..Len(notes) : notes[i] = note

\* the token holds a digit other than 0, so the amount it spells is positive
PositiveToken(tok) ==
    \E i \in 1..Len(tok) : tok[i] \in {"1", "2", "3", "4", "5", "6", "7", "8", "9"}

\* the scraped source answered with a page that carries a positive price
AvailPage(p) ==
    /\ p # None
    /\ p[1].kind = "ok"
    /\ p[1].token # None
    /\ PositiveToken(p[1].token[1])

\* both calls of the spot pair were made and answered with a non-zero number
AvailSpotPair(n) ==
    /\ n.spot # None /\ n.spot[1].kind = "ok"
    /\ n.spot[1].price # None /\ n.spot[1].price[1] # 0
    /\ n.fx # None /\ n.fx[1].kind = "ok"
    /\ n.fx[1].idr # None /\ n.fx[1].idr[1] # 0

\* v is a nearest integer to x * y / 31.1034768
NearestPerGram(v, x, y) ==
    LET d == 2 * (v * 19439673 - x * y * 625000)
    IN  d <= 19439673 /\ -d <= 19439673

\* the pair v is what the answers n of one run's own fetches amount to
OwnResult(v, n) ==
    /\ IF AvailPage(n.antam)
       THEN HasEntry(v.prices, ANTAM_NAME, ParseInt(KeepDigits(n.antam[1].token[1])))
       ELSE ~HasKey(v.prices, ANTAM_NAME) /\ HasNote(v.notes, ANTAM_NOTE)
    /\ IF AvailPage(n.he)
       THEN HasEntry(v.prices, HE_NAME, ParseInt(KeepDigits(n.he[1].token[1])))
       ELSE ~HasKey(v.prices, HE_NAME) /\ HasNote(v.notes, HE_NOTE)
    /\ IF AvailSpotPair(n)
       THEN /\ HasKey(v.prices, SPOT_NAME)
            /\ NearestPerGram(ValueAt(v.prices, SPOT_NAME),
                              n.spot[1].price[1], n.fx[1].idr[1])
       ELSE ~HasKey(v.prices, SPOT_NAME) /\ HasNote(v.notes, SPOT_NOTE)

\* every (PriceSet, NoteList) pair in the state: cached, or returned to a handler
Pairs ==
    { cache[k].val : k \in DOMAIN cache }
    \cup { loc[r].ret[1] : r \in { q \in Reqs : loc[q].ret # None } }

----------------------------------------------------------------------------
(* C1 *)

\* C1: an aggregation call that starts while the cached entry's age is
\* <= TTL (age = TTL included) returns exactly the stored pair, invokes no
\* fetcher and leaves the entry, value and timestamp, unchanged.
C1_LiveEntryReturned ==
    [][\A r \in Reqs :
        (AggCalled(r) /\ Live) =>
            /\ loc'[r].ret = Some(cache[CACHE_KEY].val)
            /\ calls'[r] = <<>>
            /\ pc'[r] \notin Fetching
            /\ cache' = cache]_vars

\* a call was answered from an entry of age exactly TTL holding an empty PriceSet
C1_Witness ==
    \E r \in Reqs :
        /\ pc[r] = "send" /\ loc[r].ret # None /\ calls[r] = <<>>
        /\ CACHE_KEY \in DOMAIN cache
        /\ now - cache[CACHE_KEY].ts = CACHE_TTL_SECONDS
        /\ loc[r].ret = Some(cache[CACHE_KEY].val)
        /\ cache[CACHE_KEY].val.prices = <<>>

----------------------------------------------------------------------------
(* C2 *)

\* C2: an aggregation call made when the entry's age is > TTL, or when
\* there is no entry, deletes the expired entry on that read and starts the
\* fetches; when it completes every fetcher has been invoked, and the cache
\* holds exactly one entry, under the fixed key, whose value is the pair the
\* call composed from its own fetches and returns, stamped with the time of
\* the store.
C2_MissRefetches ==
    [][\A r \in Reqs :
        /\ (AggCalled(r) /\ ~Live) =>
            /\ CACHE_KEY \notin DOMAIN cache'
            /\ pc'[r] = "antam"
            /\ calls'[r] = <<"antam">>
            /\ loc'[r].ret = None
        /\ Completes(r) =>
            /\ calls'[r] = AllFetchers
            /\ DOMAIN cache' = {CACHE_KEY}
            /\ cache'[CACHE_KEY].ts = now
            /\ loc'[r].ret = Some(cache'[CACHE_KEY].val)
            /\ OwnResult(cache'[CACHE_KEY].val, net'[r])]_vars

\* a call read an expired entry: another request still holds the pair it
\* was served from that entry, the entry is gone, and the call's fetchers
\* have all been invoked again
C2_Witness ==
    \E r, q \in Reqs :
        /\ pc[r] \in Fetching /\ calls[r] = AllFetchers
        /\ cache = EmptyCache
        /\ now > CACHE_TTL_SECONDS
        /\ pc[q] = "send" /\ calls[q] = <<>> /\ loc[q].ret # None

----------------------------------------------------------------------------
(* C3 *)

\* C3: when the spot reference price is present and source B returns a
\* price, B's price is in the PriceSet only if it lies within 3% of the
\* reference.
C3_OutlierRule ==
    \A r \in Reqs :
        (/\ pc[r] = "send" /\ loc[r].ret # None
         /\ AvailPage(net[r].he)
         /\ HasKey(loc[r].ret[1].prices, SPOT_NAME)) =>
            LET prices == loc[r].ret[1].prices
                ref == ValueAt(prices, SPOT_NAME)
                b == ParseInt(KeepDigits(net[r].he[1].token[1]))
                diff == IF b >= ref THEN b - ref ELSE ref - b
                size == IF ref >= 0 THEN ref ELSE -ref
            IN  HasKey(prices, HE_NAME) => 100 * diff <= 3 * size

----------------------------------------------------------------------------
(* C4 *)

----------------------------------------------------------------------------
(* C5 *)

SourceLabels == <<ANTAM_NAME, HE_NAME, SPOT_NAME>>

SourceNotes == <<ANTAM_NOTE, HE_NOTE, SPOT_NOTE>>

Rank(name) == CHOOSE i \in 1..3 : SourceLabels[i] = name

\* C5: in every pair an aggregation produced, each of the three sources
\* accounts for exactly one item, a PriceSet entry under its label or one
\* note, never both and never neither; so |PriceSet| + |NoteList| = 3, and
\* the PriceSet's keys are in fetch order.
C5_OneItemPerSource ==
    \A v \in Pairs :
        /\ Len(v.prices) + Len(v.notes) = 3
        /\ Len(v.prices) <= 3
        /\ \A i \in 1..Len(v.prices) : \E s \in 1..3 : v.prices[i][1] = SourceLabels[s]
        /\ \A s \in 1..3 :
            Cardinality({ i \in 1..Len(v.prices) : v.prices[i][1] = SourceLabels[s] })
            + Cardinality({ i \in 1..Len(v.notes) : v.notes[i] = SourceNotes[s] }) = 1
        /\ \A i, j \in 1..Len(v.prices) :
            i < j => Rank(v.prices[i][1]) < Rank(v.prices[j][1])

\* a stored pair with two prices, in fetch order, and one note
C5_Witness ==
    /\ CACHE_KEY \in DOMAIN cache
    /\ Len(cache[CACHE_KEY].val.prices) = 2
    /\ cache[CACHE_KEY].val.prices[1][1] = HE_NAME
    /\ cache[CACHE_KEY].val.prices[2][1] = SPOT_NAME
    /\ cache[CACHE_KEY].val.notes = <<ANTAM_NOTE>>

----------------------------------------------------------------------------
(* C6 *)

\* C6: the handler of POST /webhook answers every inbound request with a
\* success acknowledgement.
C6_AlwaysAcknowledged ==
    \A r \in Reqs :
        pc[r] = "done" => resp[r] # None /\ resp[r][1].status = 200 /\ resp[r][1].ok

----------------------------------------------------------------------------
(* C7 *)

\* C7: on a cache miss no fetcher's start waits for another fetcher's
\* completion: while the first fetch is still awaited, the others have
\* been started as well.
C7_FetchersStartTogether ==
    \A r \in Reqs :
        pc[r] = "antam" => \E i \in 1..Len(calls[r]) : calls[r][i] = "he"

----------------------------------------------------------------------------
(* C8 *)

ValueSet(vals) == { vals[i] : i \in 1..Len(vals) }

MaxOf(vals) == CHOOSE x \in ValueSet(vals) : \A y \in ValueSet(vals) : y <= x

MinOf(vals) == CHOOSE x \in ValueSet(vals) : \A y \in ValueSet(vals) : x <= y

\* twice the standard median of one, two or three values
TwiceMedian(vals) ==
    IF Len(vals) = 1 THEN 2 * vals[1]
    ELSE IF Len(vals) = 2 THEN vals[1] + vals[2]
    ELSE 2 * (vals[1] + vals[2] + vals[3] - MaxOf(vals) - MinOf(vals))

LinesOf(msg, tag) == { i \in 1..Len(msg) : msg[i].tag = tag }

\* the message has one line of this tag and it shows the amount x
Shows(msg, tag, x) ==
    /\ Cardinality(LinesOf(msg, tag)) = 1
    /\ \A i \in LinesOf(msg, tag) : msg[i].amount = FormatRp(x)

\* the report of request r is ready: a non-empty PriceSet was presented
Presented(r) ==
    pc[r] = "send" /\ loc[r].ret # None /\ loc[r].ret[1].prices # <<>>

SpreadRule(msg, vals) ==
    /\ (LinesOf(msg, "spread") # {}) <=> (Len(vals) >= 2)
    /\ Len(vals) >= 2 => Shows(msg, "spread", MaxOf(vals) - MinOf(vals))

\* C8 as stated: the median shown is the standard median (the mean of the
\* two middle values for an even count), the spread is max - min, and the
\* spread line is there iff there are at least 2 values.
C8_StandardMedian ==
    \A r \in Reqs :
        Presented(r) =>
            LET vals == dict_values(loc[r].ret[1].prices)
                msg == loc[r].reply
            IN  /\ \E x \in MinOf(vals)..MaxOf(vals) :
                       2 * x = TwiceMedian(vals) /\ Shows(msg, "median", x)
                /\ SpreadRule(msg, vals)

\* C8 as amended: the median shown is the standard median truncated toward
\* zero to an integer; the rest as stated.
C8_MedianTruncated ==
    \A r \in Reqs :
        Presented(r) =>
            LET vals == dict_values(loc[r].ret[1].prices)
                msg == loc[r].reply
                m2 == TwiceMedian(vals)
            IN  /\ \E x \in MinOf(vals)..MaxOf(vals) :
                       /\ \/ 2 * x = m2
                          \/ m2 % 2 = 1 /\ m2 > 0 /\ 2 * x = m2 - 1
                          \/ m2 % 2 = 1 /\ m2 < 0 /\ 2 * x = m2 + 1
                       /\ Shows(msg, "median", x)
                /\ SpreadRule(msg, vals)

\* two values whose mean is a negative half-integer were presented
C8_Witness ==
    \E r \in Reqs :
        /\ Presented(r)
        /\ Len(loc[r].ret[1].prices) = 2
        /\ TwiceMedian(dict_values(loc[r].ret[1].prices)) % 2 = 1
        /\ TwiceMedian(dict_values(loc[r].ret[1].prices)) < 0

----------------------------------------------------------------------------
(* C9 *)

\* C9: every value of every PriceSet returned or cached is a strictly
\* positive integer.
C9_AllPositive ==
    \A v \in Pairs : \A i \in 1..Len(v.prices) : v.prices[i][2] > 0

----------------------------------------------------------------------------
(* C10 *)

\* C10: with overlapping aggregation calls the cache never holds more than
\* one entry; it changes only by the lazy deletion of an expired entry or by
\* one call storing the whole pair it composed from its own fetches, which
\* is also the pair that call returns; so the entry is never a mix of two
\* runs and is always that of the call that stored last.
C10_OverlapConsistent ==
    [][/\ Cardinality(DOMAIN cache') <= 1
       /\ cache' # cache =>
            \/ cache' = EmptyCache /\ \E r \in Reqs : AggCalled(r) /\ ~Live
            \/ \E r \in Reqs :
                /\ Completes(r)
                /\ DOMAIN cache' = {CACHE_KEY}
                /\ cache'[CACHE_KEY].ts = now
                /\ loc'[r].ret = Some(cache'[CACHE_KEY].val)
       /\ \A r \in Reqs :
            Completes(r) =>
                /\ loc'[r].ret # None
                /\ OwnResult(loc'[r].ret[1], net'[r])
                /\ cache'[CACHE_KEY] = [ts |-> now, val |-> loc'[r].ret[1]]]_vars

\* two calls overlapped on a miss (both missed, and no time has passed),
\* each returned its own different result, and the cache holds that of the
\* one that stored last
C10_Witness ==
    /\ now = 0
    /\ pc["r1"] = "send" /\ pc["r2"] = "send"
    /\ calls["r1"] = AllFetchers /\ calls["r2"] = AllFetchers
    /\ loc["r1"].ret # loc["r2"].ret
    /\ loc["r1"].ret[1].notes # loc["r2"].ret[1].notes
    /\ cache[CACHE_KEY].val = loc["r2"].ret[1]

====
